---- MODULE Spec2Model ----
(***************************************************************************)
(* LinkedInJobScraper (linkedin_scraper.py): the paginated retrieval loop  *)
(* search_jobs together with the two pure helpers it calls on every        *)
(* iteration, _build_search_url and _parse_jobs_from_html, and its caller  *)
(* perform_search (job_search_core.py), which adds to every job the        *)
(* description fetch_full_job_description (job_analysis.py) returns.       *)
(*                                                                         *)
(* Text is modelled as a sequence of chunks (one-character strings for     *)
(* free text, whole code words for the coded values), Python's None as the *)
(* value None.  A response body is the list of <li> elements html.parser   *)
(* finds in it plus the flag "the body is the empty string".               *)
(***************************************************************************)
EXTENDS Integers, Sequences, FiniteSets, TLC

(* ------------------------------ bounds -------------------------------- *)
\* number of result pages a modelled source answers with list items
MaxPages == 2
\* largest caller limit explored (0 = no limit)
MaxLimit == 27
\* largest starting page index explored
MaxStartPage == 1
\* largest number of list items in a page parsed on its own
MaxItems == 3

(* ------------------------- program constants -------------------------- *)
BATCH_SIZE == 25
max_errors == 3

None == "<None>"

DATE_FILTERS ==
  [k \in {"past month", "past week", "24hr"} |->
     CASE k = "past month" -> "r2592000"
       [] k = "past week" -> "r604800"
       [] OTHER -> "r86400"]

EXPERIENCE_FILTERS ==
  [k \in {"internship", "entry level", "associate", "senior", "director", "executive"} |->
     CASE k = "internship" -> "1"
       [] k = "entry level" -> "2"
       [] k = "associate" -> "3"
       [] k = "senior" -> "4"
       [] k = "director" -> "5"
       [] OTHER -> "6"]

JOB_TYPE_FILTERS ==
  [k \in {"full time", "full-time", "part time", "part-time", "contract",
          "temporary", "volunteer", "internship"} |->
     CASE k \in {"full time", "full-time"} -> "F"
       [] k \in {"part time", "part-time"} -> "P"
       [] k = "contract" -> "C"
       [] k = "temporary" -> "T"
       [] k = "volunteer" -> "V"
       [] OTHER -> "I"]

REMOTE_FILTERS ==
  [k \in {"on site", "on-site", "remote", "hybrid"} |->
     CASE k \in {"on site", "on-site"} -> "1"
       [] k = "remote" -> "2"
       [] OTHER -> "3"]

SALARY_FILTERS ==
  [k \in {"40000", "60000", "80000", "100000", "120000"} |->
     CASE k = "40000" -> "1"
       [] k = "60000" -> "2"
       [] k = "80000" -> "3"
       [] k = "100000" -> "4"
       [] OTHER -> "5"]

(* ------------------------- _build_search_url -------------------------- *)
\* the unknown value passed through instead of dropped
GetPassThrough(table, key) == IF key \in DOMAIN table THEN table[key] ELSE key

\* dict.get(key, ""): the code of a recognised value, "" otherwise
Get(table, key) == IF key \in DOMAIN table THEN table[key] ELSE ""

\* str.replace(" ", "+") on a text given character by character
ReplaceSpaces(s) == [i \in 1..Len(s) |-> IF s[i] = " " THEN "+" ELSE s[i]]

\* requests.utils.requote_uri on one character: unreserved and reserved
\* characters stay, every other character is percent-encoded
RequoteChar(c) ==
  CASE c = " " -> "%20"
    [] c = "<" -> "%3C"
    [] c = "\"" -> "%22"
    [] OTHER -> c

requote_uri(s) == [i \in 1..Len(s) |-> RequoteChar(s[i])]

\* one "key=value" element of the query string, or nothing
Param(present, key, value) ==
  IF present THEN << <<key, requote_uri(value)>> >> ELSE << >>

SortCode(sort_by) ==
  CASE sort_by = "recent" -> "DD"
    [] sort_by = "relevant" -> "R"
    [] OTHER -> ""

\* the page offset forgotten
StartOfIgnoringPage(f, start) == start

\* start + (self.page * self.BATCH_SIZE): the absolute offset a request asks for
StartOf(f, start) == start + (f.page * BATCH_SIZE)

\* the query parameters in dict insertion order; start is always the last
_build_search_url(f, start) ==
     Param(f.keyword # << >>, "keywords", ReplaceSpaces(f.keyword))
  \o Param(f.location # << >>, "location", ReplaceSpaces(f.location))
  \o Param(f.date_posted # "" /\ Get(DATE_FILTERS, f.date_posted) # "",
           "f_TPR", <<Get(DATE_FILTERS, f.date_posted)>>)
  \o Param(f.salary # "" /\ Get(SALARY_FILTERS, f.salary) # "",
           "f_SB2", <<Get(SALARY_FILTERS, f.salary)>>)
  \o Param(f.experience # "" /\ Get(EXPERIENCE_FILTERS, f.experience) # "",
           "f_E", <<Get(EXPERIENCE_FILTERS, f.experience)>>)
  \o Param(f.remote # "" /\ Get(REMOTE_FILTERS, f.remote) # "",
           "f_WT", <<Get(REMOTE_FILTERS, f.remote)>>)
  \o Param(f.job_type # "" /\ Get(JOB_TYPE_FILTERS, f.job_type) # "",
           "f_JT", <<Get(JOB_TYPE_FILTERS, f.job_type)>>)
  \o Param(f.sort_by # "" /\ SortCode(f.sort_by) # "",
           "sortBy", <<SortCode(f.sort_by)>>)
  \o << <<"start", <<ToString(StartOf(f, start))>> >> >>

(* ----------------------- _parse_jobs_from_html ------------------------ *)
\* x or default
Or(x, default) == IF x # None /\ x # "" THEN x ELSE default

\* li.find(...).get_text(strip=True) if the element exists, else None
TextOf(elem) == IF elem.present THEN elem.text ELSE None

\* the link target read with .get() as the logo attributes are
RaisesOnlyForTime(li) == li.time.present /\ ~li.time.has_datetime

\* the body of the try block for one <li>: raises iff a subscripted
\* attribute (time["datetime"], a["href"]) is missing on a present element
Raises(li) ==
  \/ li.time.present /\ ~li.time.has_datetime
  \/ li.link.present /\ ~li.link.has_href

JobOf(li) ==
  LET position == TextOf(li.title)
      company  == TextOf(li.company)
      location == TextOf(li.location)
      date     == IF li.time.present THEN li.time.datetime ELSE None
      ago_time == TextOf(li.time)
      salary   == IF li.salary.present
                    THEN (IF li.salary.text # "" THEN li.salary.text ELSE None)
                    ELSE None
      job_url  == IF li.link.present THEN li.link.href ELSE None
      company_logo ==
                  IF li.logo.present
                    THEN (IF Or(li.logo.delayed, "") # "" THEN li.logo.delayed
                          ELSE li.logo.src)
                    ELSE None
  IN  [position |-> position,
       company |-> company,
       location |-> Or(location, ""),
       date |-> Or(date, ""),
       agoTime |-> Or(ago_time, ""),
       salary |-> Or(salary, "Not specified"),
       jobUrl |-> Or(job_url, ""),
       companyLogo |-> Or(company_logo, "")]

\* the company not asked for
EmitsWithoutCompany(li) ==
  /\ ~Raises(li)
  /\ Or(TextOf(li.title), "") # ""

\* the listing URL asked for as well
EmitsNeedingLink(li) ==
  /\ ~Raises(li)
  /\ Or(TextOf(li.title), "") # ""
  /\ Or(TextOf(li.company), "") # ""
  /\ li.link.present

\* a job is appended iff nothing raised and title and company are truthy
Emits(li) ==
  /\ ~Raises(li)
  /\ Or(TextOf(li.title), "") # ""
  /\ Or(TextOf(li.company), "") # ""

\* the loop over soup.find_all("li"): the jobs of the items that emit one,
\* in the order of the markup
ParseItems(items) ==
  LET kept == SelectSeq(items, Emits)
  IN  [i \in 1..Len(kept) |-> JobOf(kept[i])]

_parse_jobs_from_html(text) == ParseItems(text.li)

(* ----------------------------- the source ------------------------------ *)
\* the sub-elements of one <li> that _parse_jobs_from_html looks up
Elem(text) == [present |-> TRUE, text |-> text]
NoElem == [present |-> FALSE, text |-> None]

Url(i) == "https://www.linkedin.com/jobs/view/" \o ToString(i)

\* a well-formed posting entry whose anchor points at listing i
Card(i) ==
  [title |-> Elem("Engineer"),
   company |-> Elem("Acme"),
   location |-> Elem("Remote"),
   time |-> [present |-> TRUE, text |-> "1 week ago",
             has_datetime |-> TRUE, datetime |-> "2024-01-01"],
   salary |-> NoElem,
   link |-> [present |-> TRUE, has_href |-> TRUE, href |-> Url(i)],
   logo |-> [present |-> TRUE, delayed |-> None, src |-> "logo.png"]]

\* the same entry without its company element
NoCompany(i) == [Card(i) EXCEPT !.company = NoElem]

\* n well-formed entries for the listings first, first+1, ...
PageOf(first, n) == [j \in 1..n |-> Card(first + j - 1)]

\* k full pages: page p holds the listings 25(p-1)+1 .. 25p
FullPages(k) == [p \in 1..k |-> PageOf(BATCH_SIZE * (p - 1) + 1, BATCH_SIZE)]

\* what the server answers per page index; past the last page it answers
\* with markup that holds no list item
Sources ==
     {FullPages(k) : k \in 0..MaxPages}
  \cup {FullPages(k) \o <<PageOf(BATCH_SIZE * k + 1, 3)>> : k \in 0..(MaxPages - 1)}
  \cup {[p \in 1..k |-> PageOf((BATCH_SIZE - 1) * (p - 1) + 1, BATCH_SIZE)] :
          k \in 2..MaxPages}
  \cup { <<PageOf(1, BATCH_SIZE + 5)>>,
         << <<Card(1), NoCompany(2), Card(3)>> >>,
         << <<NoCompany(1)>>, PageOf(BATCH_SIZE + 1, 2) >>,
         << << >>, PageOf(BATCH_SIZE + 1, BATCH_SIZE) >> }

Body(items) == [blank |-> FALSE, li |-> items]
EmptyBody == [blank |-> TRUE, li |-> << >>]

\* the markup the server holds for the absolute offset abs
PageAt(src, abs) ==
  LET p == (abs \div BATCH_SIZE) + 1
  IN  IF p \in 1..Len(src) THEN Body(src[p]) ELSE Body(<< >>)

\* what requests.get can produce for a request at offset abs: a raised
\* connection error, a non-200 status, 200 with an empty body, or 200 with
\* the page
Responses(src, abs) ==
  { [raised |-> TRUE, status_code |-> 0, text |-> EmptyBody],
    [raised |-> FALSE, status_code |-> 429, text |-> EmptyBody],
    [raised |-> FALSE, status_code |-> 500, text |-> Body(<< >>)],
    [raised |-> FALSE, status_code |-> 200, text |-> EmptyBody],
    [raised |-> FALSE, status_code |-> 200, text |-> PageAt(src, abs)] }

\* the test for an empty body missing
FailedIgnoringBody(resp) == resp.raised \/ resp.status_code # 200

\* the try block raises before parsing
Failed(resp) == resp.raised \/ resp.status_code # 200 \/ resp.text.blank

Classify(resp) ==
  CASE resp.raised -> "network_error"
    [] resp.status_code = 429 -> "rate_limited"
    [] resp.status_code # 200 -> "http_error"
    [] resp.text.blank -> "empty_body"
    [] OTHER -> "ok"

(* ------------------------------ the state ----------------------------- *)
VARIABLES
  args,                \* the arguments the scraper was constructed with
  self,                \* the scraper's filters, page and limit
  source,              \* the pages the server holds
  pc,                  \* FETCHING, RETRYING, PAUSING or STOPPED
  results,             \* the accumulated job dicts
  start_offset,        \* the batch start offset
  consecutive_errors,  \* failures since the last batch that continued
  url,                 \* the URL of the latest request
  outcome,             \* how the latest request ended
  slept,               \* the latest time.sleep
  requests,            \* number of requests.get calls
  failures,            \* number of failed attempts
  streak,              \* failed attempts in a row since the last answer
  sleeps,              \* number of time.sleep calls
  batches,             \* number of fetches that yielded at least one job
  exit,                \* which break left the loop
  jobs,                \* the job dicts perform_search works on and returns
  job_index,           \* position of perform_search's loop over jobs
  fetched              \* what each fetch_full_job_description call returned

vars == <<args, self, source, pc, results, start_offset, consecutive_errors,
          url, outcome, slept, requests, failures, streak, sleeps, batches, exit,
          jobs, job_index, fetched>>

\* the loop asks at most max_errors times for each page from the starting
\* page to the first one past the end of the source
MaxRequests(src, page) ==
  max_errors * ((IF Len(src) > page THEN Len(src) - page ELSE 0) + 1)

\* random.random() in thousandths
Fractions == {0, 999}

NoSleep == [kind |-> "none", secs |-> 0, frac |-> 0]

\* the characters str.strip() removes
Whitespace == {" ", "\t"}

RECURSIVE LStrip(_)
LStrip(s) == IF s # << >> /\ Head(s) \in Whitespace THEN LStrip(Tail(s)) ELSE s

RECURSIVE RStrip(_)
RStrip(s) ==
  IF s # << >> /\ s[Len(s)] \in Whitespace THEN RStrip(SubSeq(s, 1, Len(s) - 1)) ELSE s

\* lstrip() written for strip(): trailing whitespace kept
lstrip(s) == LStrip(s)

\* str.strip(): leading and trailing whitespace removed, the inside kept
strip(s) == RStrip(LStrip(s))

\* str.lower() on one chunk of text
LowerChunk(c) ==
  CASE c \in {"Past Week", "PAST WEEK"} -> "past week"
    [] c = "24HR" -> "24hr"
    [] c \in {"Contract", "CONTRACT"} -> "contract"
    [] c = "Full Time" -> "full time"
    [] c \in {"Remote", "REMOTE"} -> "remote"
    [] c = "On-Site" -> "on-site"
    [] c \in {"Senior", "SENIOR"} -> "senior"
    [] c = "Guru" -> "guru"
    [] c \in {"Recent", "RECENT"} -> "recent"
    [] c = "Relevant" -> "relevant"
    [] c = "Oldest" -> "oldest"
    [] OTHER -> c

lower(s) == [i \in 1..Len(s) |-> LowerChunk(s[i])]

\* the chunks of a text written as one string
RECURSIVE Join(_)
Join(s) == IF s = << >> THEN "" ELSE Head(s) \o Join(Tail(s))

\* the filter arguments of the modelled calls of search_jobs
RawFilters ==
  { [keyword |-> <<" ", "q", " ", "a">>, location |-> <<"N", "Y", " ">>,
     date_posted |-> <<" ", "Past Week">>, job_type |-> <<"CONTRACT">>,
     remote |-> <<"Remote", "\t">>, salary |-> << >>, experience |-> <<"Guru">>,
     sort_by |-> <<"RECENT", " ">>] }

\* the filter values of the modelled calls, as __init__ stores them
Filters ==
  { [keyword |-> <<"q", " ", "a">>, location |-> <<"N", "Y">>,
     date_posted |-> "past week", job_type |-> "contract",
     remote |-> "remote", salary |-> "", experience |-> "guru",
     sort_by |-> "recent"] }

Scraper(f, page, limit) ==
  [keyword |-> f.keyword, location |-> f.location,
   date_posted |-> f.date_posted, job_type |-> f.job_type,
   remote |-> f.remote, salary |-> f.salary, experience |-> f.experience,
   sort_by |-> f.sort_by, page |-> page, limit |-> limit]

\* the arguments of one construction
CallArgs(r, page, limit) ==
  [keyword |-> r.keyword, location |-> r.location,
   date_posted |-> r.date_posted, job_type |-> r.job_type,
   remote |-> r.remote, salary |-> r.salary, experience |-> r.experience,
   sort_by |-> r.sort_by, page |-> page, limit |-> limit]

\* the attributes the constructor stores
__init__(a) ==
  Scraper([keyword |-> strip(a.keyword),
           location |-> strip(a.location),
           date_posted |-> Join(lower(strip(a.date_posted))),
           job_type |-> Join(lower(strip(a.job_type))),
           remote |-> Join(lower(strip(a.remote))),
           salary |-> Join(strip(a.salary)),
           experience |-> Join(lower(strip(a.experience))),
           sort_by |-> Join(lower(strip(a.sort_by)))],
          a.page, a.limit)

\* the state of search_jobs at its first loop iteration
LoopStart ==
  /\ pc = "FETCHING"
  /\ results = << >>
  /\ start_offset = 0
  /\ consecutive_errors = 0
  /\ url = << >>
  /\ outcome = "none"
  /\ slept = NoSleep
  /\ requests = 0
  /\ failures = 0
  /\ streak = 0
  /\ sleeps = 0
  /\ batches = 0
  /\ exit = "none"
  /\ jobs = << >>
  /\ job_index = 0
  /\ fetched = << >>

Init ==
  /\ args \in {CallArgs(r, p, l) : r \in RawFilters, p \in 0..MaxStartPage, l \in 0..MaxLimit}
  /\ self = __init__(args)
  /\ source \in Sources
  /\ LoopStart

(* ----------------------------- search_jobs ---------------------------- *)
\* the slice forgotten: the whole list is kept
TruncateNothing(list, limit) == list

\* results[: limit]
Truncate(list, limit) == SubSeq(list, 1, limit)

\* the comparison written as >
LimitReachedStrict(list, limit) == limit # 0 /\ Len(list) > limit

\* if self.limit and len(results) >= self.limit
LimitReached(list, limit) == limit # 0 /\ Len(list) >= limit

\* the offset counted in pages instead of records
NextOffsetByOne(offset) == offset + 1

\* the offset advanced by two batches
NextOffsetSkipping(offset) == offset + (2 * BATCH_SIZE)

\* start_offset += self.BATCH_SIZE
NextOffset(offset) == offset + BATCH_SIZE

\* the increment forgotten
CountErrorForgotten(errors) == errors

\* the counter raised by two
CountErrorTwice(errors) == errors + 2

\* consecutive_errors += 1
CountError(errors) == errors + 1

\* the comparison written as >
BudgetExhaustedLate(errors) == errors > max_errors

\* if consecutive_errors >= max_errors: break
BudgetExhausted(errors) == errors >= max_errors

\* the exponent one too small
BackoffDelayLate(errors) == (2 ^ (errors - 1)) * 1

\* (2**consecutive_errors) * 1
BackoffDelay(errors) == (2 ^ errors) * 1

\* requests.get for the current batch.  The headers are fixed except for the
\* User-Agent, drawn anew for every attempt; nothing reads it afterwards, so
\* the request is identified by its URL.
Request(resp) ==
  /\ pc = "FETCHING"
  /\ requests < MaxRequests(source, self.page)
  /\ resp \in Responses(source, StartOf(self, start_offset))
  /\ url' = _build_search_url(self, start_offset)
  /\ requests' = requests + 1
  /\ outcome' = Classify(resp)
  /\ UNCHANGED <<args, self, source, sleeps, jobs, job_index, fetched>>

\* the except branch moving on to the next batch
FetchFailedSkipping ==
  \E resp \in Responses(source, StartOf(self, start_offset)) :
    /\ Request(resp)
    /\ Failed(resp)
    /\ consecutive_errors' = CountError(consecutive_errors)
    /\ failures' = failures + 1
    /\ streak' = streak + 1
    /\ start_offset' = NextOffset(start_offset)
    /\ IF BudgetExhausted(consecutive_errors')
         THEN pc' = "STOPPED" /\ exit' = "errors"
         ELSE pc' = "RETRYING" /\ exit' = exit
    /\ UNCHANGED <<results, slept, batches>>

\* HTTP 429 given up on at once instead of being retried
FetchFailedRateLimitFatal ==
  \E resp \in Responses(source, StartOf(self, start_offset)) :
    /\ Request(resp)
    /\ Failed(resp)
    /\ consecutive_errors' = CountError(consecutive_errors)
    /\ failures' = failures + 1
    /\ streak' = streak + 1
    /\ IF BudgetExhausted(consecutive_errors') \/ resp.status_code = 429
         THEN pc' = "STOPPED" /\ exit' = "errors"
         ELSE pc' = "RETRYING" /\ exit' = exit
    /\ UNCHANGED <<results, start_offset, slept, batches>>

\* the exhausted budget reported to the caller in the returned value
FetchFailedSurfacing ==
  \E resp \in Responses(source, StartOf(self, start_offset)) :
    /\ Request(resp)
    /\ Failed(resp)
    /\ consecutive_errors' = CountError(consecutive_errors)
    /\ failures' = failures + 1
    /\ streak' = streak + 1
    /\ IF BudgetExhausted(consecutive_errors')
         THEN pc' = "STOPPED" /\ exit' = "errors" /\ results' = <<None>>
         ELSE pc' = "RETRYING" /\ exit' = exit /\ results' = results
    /\ UNCHANGED <<start_offset, slept, batches>>

\* the except branch: count the failure, give up or back off
FetchFailed ==
  \E resp \in Responses(source, StartOf(self, start_offset)) :
    /\ Request(resp)
    /\ Failed(resp)
    /\ consecutive_errors' = CountError(consecutive_errors)
    /\ failures' = failures + 1
    /\ streak' = streak + 1
    /\ IF BudgetExhausted(consecutive_errors')
         THEN pc' = "STOPPED" /\ exit' = "errors"
         ELSE pc' = "RETRYING" /\ exit' = exit
    /\ UNCHANGED <<results, start_offset, slept, batches>>

\* the check for an empty batch missing: the loop goes on to the next offset
FetchEmptyAdvancing ==
  \E resp \in Responses(source, StartOf(self, start_offset)) :
    /\ Request(resp)
    /\ ~Failed(resp)
    /\ _parse_jobs_from_html(resp.text) = << >>
    /\ start_offset' = NextOffset(start_offset)
    /\ consecutive_errors' = 0
    /\ pc' = "PAUSING"
    /\ streak' = 0
    /\ UNCHANGED <<results, slept, failures, batches, exit>>

\* an empty batch asked for again after a pause instead of ending the loop
FetchEmptyRetrying ==
  \E resp \in Responses(source, StartOf(self, start_offset)) :
    /\ Request(resp)
    /\ ~Failed(resp)
    /\ _parse_jobs_from_html(resp.text) = << >>
    /\ pc' = "PAUSING"
    /\ streak' = 0
    /\ UNCHANGED <<results, start_offset, consecutive_errors, slept, failures, batches, exit>>

\* if not batch_jobs: break
FetchEmpty ==
  \E resp \in Responses(source, StartOf(self, start_offset)) :
    /\ Request(resp)
    /\ ~Failed(resp)
    /\ _parse_jobs_from_html(resp.text) = << >>
    /\ pc' = "STOPPED"
    /\ exit' = "empty"
    /\ streak' = 0
    /\ UNCHANGED <<results, start_offset, consecutive_errors, slept, failures, batches>>

\* results.extend(batch_jobs); the limit is reached: truncate and break
FetchLimit ==
  \E resp \in Responses(source, StartOf(self, start_offset)) :
    /\ Request(resp)
    /\ ~Failed(resp)
    /\ LET batch_jobs == _parse_jobs_from_html(resp.text)
       IN  /\ batch_jobs # << >>
           /\ LimitReached(results \o batch_jobs, self.limit)
           /\ results' = Truncate(results \o batch_jobs, self.limit)
    /\ pc' = "STOPPED"
    /\ exit' = "limit"
    /\ streak' = 0
    /\ batches' = batches + 1
    /\ UNCHANGED <<start_offset, consecutive_errors, slept, failures>>

\* the counter not reset on success: failures add up over the whole call
FetchMoreNoReset ==
  \E resp \in Responses(source, StartOf(self, start_offset)) :
    /\ Request(resp)
    /\ ~Failed(resp)
    /\ LET batch_jobs == _parse_jobs_from_html(resp.text)
       IN  /\ batch_jobs # << >>
           /\ ~LimitReached(results \o batch_jobs, self.limit)
           /\ results' = results \o batch_jobs
    /\ start_offset' = NextOffset(start_offset)
    /\ pc' = "PAUSING"
    /\ streak' = 0
    /\ batches' = batches + 1
    /\ UNCHANGED <<consecutive_errors, slept, failures, exit>>

\* the batch appended twice
FetchMoreTwice ==
  \E resp \in Responses(source, StartOf(self, start_offset)) :
    /\ Request(resp)
    /\ ~Failed(resp)
    /\ LET batch_jobs == _parse_jobs_from_html(resp.text)
       IN  /\ batch_jobs # << >>
           /\ ~LimitReached(results \o batch_jobs, self.limit)
           /\ results' = (results \o batch_jobs) \o batch_jobs
    /\ start_offset' = NextOffset(start_offset)
    /\ consecutive_errors' = 0
    /\ pc' = "PAUSING"
    /\ streak' = 0
    /\ batches' = batches + 1
    /\ UNCHANGED <<slept, failures, exit>>

\* results.extend(batch_jobs); prepare for the next batch
FetchMore ==
  \E resp \in Responses(source, StartOf(self, start_offset)) :
    /\ Request(resp)
    /\ ~Failed(resp)
    /\ LET batch_jobs == _parse_jobs_from_html(resp.text)
       IN  /\ batch_jobs # << >>
           /\ ~LimitReached(results \o batch_jobs, self.limit)
           /\ results' = results \o batch_jobs
    /\ start_offset' = NextOffset(start_offset)
    /\ consecutive_errors' = 0
    /\ pc' = "PAUSING"
    /\ streak' = 0
    /\ batches' = batches + 1
    /\ UNCHANGED <<slept, failures, exit>>

\* the pause grown by the failures met so far
PolitenessSleepScaled ==
  /\ pc = "PAUSING"
  /\ \E r \in Fractions :
       slept' = [kind |-> "politeness", secs |-> 2 + failures, frac |-> r]
  /\ pc' = "FETCHING"
  /\ sleeps' = sleeps + 1
  /\ UNCHANGED <<args, self, source, results, start_offset, consecutive_errors,
                 url, outcome, requests, failures, streak, batches, exit,
                 jobs, job_index, fetched>>

\* time.sleep(2 + random.random())
PolitenessSleep ==
  /\ pc = "PAUSING"
  /\ \E r \in Fractions : slept' = [kind |-> "politeness", secs |-> 2, frac |-> r]
  /\ pc' = "FETCHING"
  /\ sleeps' = sleeps + 1
  /\ UNCHANGED <<args, self, source, results, start_offset, consecutive_errors,
                 url, outcome, requests, failures, streak, batches, exit,
                 jobs, job_index, fetched>>

\* time.sleep((2**consecutive_errors) * 1), then the same offset again
BackoffSleep ==
  /\ pc = "RETRYING"
  /\ slept' = [kind |-> "backoff", secs |-> BackoffDelay(consecutive_errors), frac |-> 0]
  /\ pc' = "FETCHING"
  /\ sleeps' = sleeps + 1
  /\ UNCHANGED <<args, self, source, results, start_offset, consecutive_errors,
                 url, outcome, requests, failures, streak, batches, exit,
                 jobs, job_index, fetched>>

Next ==
  \/ FetchFailed
  \/ FetchEmpty
  \/ FetchLimit
  \/ FetchMore
  \/ PolitenessSleep
  \/ BackoffSleep

Spec == Init /\ [][Next]_vars

\* the limits of the calls followed to their end: none, one job, part of
\* the first batch, one job of the second batch
FairLimits == {0, 1, 10, BATCH_SIZE + 1}

FairInit == Init /\ self.limit \in FairLimits

\* the loop is sequential code: it keeps running until it breaks
FairSpec == FairInit /\ [][Next]_vars /\ WF_vars(Next)

TypeOK ==
  /\ pc \in {"FETCHING", "RETRYING", "PAUSING", "STOPPED"}
  /\ start_offset \in Nat
  /\ consecutive_errors \in 0..max_errors
  /\ requests \in 0..MaxRequests(source, self.page)
  /\ pc = "FETCHING" => requests < MaxRequests(source, self.page)
  /\ exit \in {"none", "empty", "limit", "errors"}
  /\ \E f \in Filters : self = Scraper(f, self.page, self.limit)

(* ------------------------------ properties ---------------------------- *)
\* the batch the server holds for the request the loop is about to make
CurrentBatch == _parse_jobs_from_html(PageAt(source, StartOf(self, start_offset)))

\* this step is a requests.get that failed
FailedAttempt == requests' = requests + 1 /\ outcome' # "ok"

\* this step is a requests.get that produced at least one job
NonEmptyFetch == requests' = requests + 1 /\ outcome' = "ok" /\ CurrentBatch # << >>

\* this step is a requests.get that produced no job
EmptyFetch == requests' = requests + 1 /\ outcome' = "ok" /\ CurrentBatch = << >>

\* C1: with limit > 0 the list search_jobs returns has at most limit
\* elements, whatever the sizes of the batches and the failures in between.
C1_AtMostLimit ==
  (pc = "STOPPED" /\ self.limit > 0) => Len(results) <= self.limit

\* a call that got a batch larger than what was still missing, after a failure
C1_Witness ==
  /\ pc = "STOPPED"
  /\ exit = "limit"
  /\ self.limit = 10
  /\ Len(results) = 10
  /\ failures > 0

\* C2: three failed attempts in a row end the loop: no further request, the
\* list is the one accumulated before them, and when they are the first
\* three requests of the call the list is empty and the offset still 0.
C2_ThreeFailuresStop ==
  /\ [](streak = 3 => (pc = "STOPPED" /\ exit = "errors"))
  /\ []((streak = 3 /\ requests = 3) => (results = << >> /\ start_offset = 0))
  /\ [][FailedAttempt => results' = results]_vars
  /\ [][streak # 3]_vars

\* three failures in a row after a batch had been accumulated
C2_Witness ==
  /\ streak = 3
  /\ pc = "STOPPED"
  /\ results # << >>
  /\ start_offset = 25

\* C3 as stated: every successful fetch that yields a record advances the
\* offset by 25.
C3_Original ==
  [][NonEmptyFetch => start_offset' = start_offset + 25]_vars

\* C3 as amended: a successful fetch that yields a record advances the offset
\* by exactly 25 unless it reaches the caller's limit; every other step
\* leaves the offset unchanged, so the offset never decreases.
C3_OffsetAdvance ==
  [][ /\ (NonEmptyFetch /\ ~(self.limit # 0 /\ Len(results) + Len(CurrentBatch) >= self.limit))
           => start_offset' = start_offset + 25
      /\ ~(NonEmptyFetch /\ ~(self.limit # 0 /\ Len(results) + Len(CurrentBatch) >= self.limit))
           => start_offset' = start_offset
      /\ start_offset' >= start_offset ]_vars

\* two batches were taken and the second one reached the limit
C3_Witness ==
  /\ exit = "limit"
  /\ start_offset = 25
  /\ Len(results) = 26

\* C4: a failed attempt changes neither the offset nor the list, and the
\* request made after it carries the URL of the failed one.
C4_FailureFrame ==
  /\ [][FailedAttempt => (start_offset' = start_offset /\ results' = results)]_vars
  /\ [][(requests' = requests + 1 /\ outcome \notin {"none", "ok"}) => url' = url]_vars

\* a retry that succeeded at the second batch after two failures
C4_Witness ==
  /\ outcome = "ok"
  /\ failures = 2
  /\ start_offset = 50
  /\ Len(results) = 50

C6_Terminates ==
  /\ <>(pc = "STOPPED")
  /\ [](pc = "STOPPED" =>
          \/ exit = "empty" /\ outcome = "ok" /\ CurrentBatch = << >>
          \/ exit = "limit" /\ self.limit > 0 /\ Len(results) = self.limit
          \/ exit = "errors" /\ streak = 3)

\* a run that ended at the empty page after two batches and some failures
C6_Witness ==
  /\ pc = "STOPPED"
  /\ exit = "empty"
  /\ start_offset = 50
  /\ failures >= 4

\* C7: a successful fetch without a job ends the loop at once: the list and
\* the last sleep stay as they were, and nothing happens afterwards.
C7_EmptyBatchStops ==
  /\ [][EmptyFetch => (pc' = "STOPPED" /\ results' = results /\ slept' = slept
                        /\ start_offset' = start_offset)]_vars
  /\ [][exit # "empty"]_vars

\* the empty batch came after a batch and a failure
C7_Witness ==
  /\ exit = "empty"
  /\ pc = "STOPPED"
  /\ results # << >>
  /\ failures > 0

\* the jobs of the pages p, p+1, ... of a source, in page order
RECURSIVE Discoverable(_, _)
Discoverable(src, p) ==
  IF p > Len(src) THEN << >>
  ELSE _parse_jobs_from_html(Body(src[p])) \o Discoverable(src, p + 1)

\* the page index the current offset asks for
CurrentPage == (StartOf(self, start_offset) \div 25) + 1

\* C8: with limit 0, when the loop ends at an empty batch and no page from
\* there on holds a job, the list returned is the jobs of all pages from the
\* caller's starting page on, in source order.
C8_AllDiscoverable ==
  (/\ pc = "STOPPED"
   /\ exit = "empty"
   /\ self.limit = 0
   /\ Discoverable(source, CurrentPage) = << >>)
    => results = Discoverable(source, self.page + 1)

\* two full pages were collected, with failures in between, before the end
C8_Witness ==
  /\ pc = "STOPPED"
  /\ exit = "empty"
  /\ self.limit = 0
  /\ self.page = 0
  /\ Len(results) = 50
  /\ failures > 0

\* every page of the source holds 25 entries that yield a job
FullBatches(src) ==
  \A p \in 1..Len(src) :
    Len(src[p]) = 25 /\ \A i \in 1..25 : Emits(src[p][i])

\* number of batches needed for n jobs
BatchesFor(n) == (n + 24) \div 25

\* C9: full batches, no failure and 0 < limit <= jobs available: the list
\* returned is the first limit jobs in source order, the loop stops at the
\* batch holding the limit-th job after BatchesFor(limit) requests and the
\* offset never exceeds 25 * (BatchesFor(limit) - 1); for limit 10 that is
\* one request and 10 jobs.
C9_FirstLRecords ==
  (/\ self.limit > 0
   /\ failures = 0
   /\ FullBatches(source)
   /\ self.limit <= 25 * (Len(source) - self.page))
    => /\ start_offset <= 25 * (BatchesFor(self.limit) - 1)
       /\ requests <= BatchesFor(self.limit)
       /\ pc = "STOPPED" =>
            /\ exit = "limit"
            /\ results = SubSeq(Discoverable(source, self.page + 1), 1, self.limit)
            /\ requests = BatchesFor(self.limit)
            /\ start_offset = 25 * (BatchesFor(self.limit) - 1)
       /\ (pc = "STOPPED" /\ self.limit = 10) =>
            (requests = 1 /\ Len(results) = 10 /\ start_offset = 0)

\* limit 25 met exactly by the first full batch
C9_Witness ==
  /\ pc = "STOPPED"
  /\ failures = 0
  /\ FullBatches(source)
  /\ self.limit = 25
  /\ Len(source) = 2
  /\ self.page = 0
  /\ requests = 1

\* C10: no two jobs of the list search_jobs returns carry the same jobUrl.
C10_Deduplicated ==
  pc = "STOPPED" =>
    \A i, j \in 1..Len(results) :
      i # j => results[i].jobUrl # results[j].jobUrl

\* C11: every failed attempt, whatever its kind, is handled inside the loop
\* by the same transition: the counter goes up by one, the loop stops iff the
\* counter has reached 3 and retries otherwise, list, offset and last sleep
\* stay as they were, and the backoff slept depends on the counter only.
C11_KindIndependent ==
  /\ [][FailedAttempt =>
          /\ outcome' \in {"rate_limited", "http_error", "network_error", "empty_body"}
          /\ consecutive_errors' = consecutive_errors + 1
          /\ pc' = (IF consecutive_errors + 1 >= 3 THEN "STOPPED" ELSE "RETRYING")
          /\ exit' = (IF consecutive_errors + 1 >= 3 THEN "errors" ELSE exit)
          /\ results' = results
          /\ start_offset' = start_offset
          /\ slept' = slept]_vars
  /\ [][pc = "RETRYING" =>
          slept' = [kind |-> "backoff", secs |-> 2 ^ consecutive_errors, frac |-> 0]]_vars

\* an HTTP 429 as the second failure in a row was backed off and retried
C11_Witness ==
  /\ outcome = "rate_limited"
  /\ consecutive_errors = 2
  /\ pc = "FETCHING"
  /\ slept.secs = 4

(* ----------------------- _build_search_url alone ---------------------- *)
\* the filter arguments of the modelled calls of _build_search_url: per
\* dimension an empty value, recognised ones and unrecognised ones, in mixed
\* case and with surrounding whitespace
UrlFilters ==
  [keyword : {<< >>, <<" ", "q", " ", "a", " ">>, <<" ">>},
   location : {<< >>, <<"N", "Y">>, <<"<">>},
   date_posted : {<< >>, <<" ", "Past Week", " ">>, <<"yesterday">>},
   job_type : {<< >>, <<"Full Time">>, <<"gig">>},
   remote : {<< >>, <<"on-site", "\t">>, <<"anywhere">>},
   salary : {<< >>, <<"100000", " ">>, <<"100k">>},
   experience : {<< >>, <<"SENIOR">>, <<"guru">>},
   sort_by : {<< >>, <<"Recent">>, <<"relevant">>, <<"Oldest">>}]

\* the batch offsets _build_search_url is called with
UrlStarts == {0, BATCH_SIZE}

UrlInit ==
  /\ args \in {CallArgs(r, p, 0) : r \in UrlFilters, p \in 0..MaxStartPage}
  /\ self = __init__(args)
  /\ source = << >>
  /\ pc = "BUILDING"
  /\ results = << >>
  /\ start_offset = 0
  /\ consecutive_errors = 0
  /\ url = << >>
  /\ outcome = "none"
  /\ slept = NoSleep
  /\ requests = 0
  /\ failures = 0
  /\ streak = 0
  /\ sleeps = 0
  /\ batches = 0
  /\ exit = "none"
  /\ jobs = << >>
  /\ job_index = 0
  /\ fetched = << >>

\* url = self._build_search_url(start)
BuildUrl ==
  /\ pc = "BUILDING"
  /\ \E start \in UrlStarts :
       /\ start_offset' = start
       /\ url' = _build_search_url(self, start)
  /\ pc' = "BUILT"
  /\ UNCHANGED <<args, self, source, results, consecutive_errors, outcome, slept,
                 requests, failures, streak, sleeps, batches, exit,
                 jobs, job_index, fetched>>

UrlNext == BuildUrl

SpecUrl == UrlInit /\ [][UrlNext]_vars

\* the URL u carries the parameter key
HasParam(u, key) == \E i \in 1..Len(u) : u[i][1] = key

\* C12: the URL carries the parameter of a dimension iff the value stored for
\* the dimension is non-empty and, for a coded dimension, one of the values
\* the scraper knows; it carries start always and no other parameter.
C12_ParamIffRecognised ==
  pc = "BUILT" =>
    /\ HasParam(url, "keywords") <=> self.keyword # << >>
    /\ HasParam(url, "location") <=> self.location # << >>
    /\ HasParam(url, "f_TPR") <=> self.date_posted \in {"past month", "past week", "24hr"}
    /\ HasParam(url, "f_SB2") <=> self.salary \in {"40000", "60000", "80000", "100000", "120000"}
    /\ HasParam(url, "f_E") <=>
         self.experience \in {"internship", "entry level", "associate", "senior",
                              "director", "executive"}
    /\ HasParam(url, "f_WT") <=> self.remote \in {"on site", "on-site", "remote", "hybrid"}
    /\ HasParam(url, "f_JT") <=>
         self.job_type \in {"full time", "full-time", "part time", "part-time",
                            "contract", "temporary", "volunteer", "internship"}
    /\ HasParam(url, "sortBy") <=> self.sort_by \in {"recent", "relevant"}
    /\ HasParam(url, "start")
    /\ \A i \in 1..Len(url) :
         url[i][1] \in {"keywords", "location", "f_TPR", "f_SB2", "f_E", "f_WT",
                        "f_JT", "sortBy", "start"}

\* unrecognised values next to a recognised one and an empty keyword
C12_Witness ==
  /\ pc = "BUILT"
  /\ self.experience = "guru"
  /\ self.salary = "100k"
  /\ self.sort_by = "oldest"
  /\ self.keyword = << >>
  /\ HasParam(url, "f_TPR")
  /\ Len(url) = 2

(* --------------------- _parse_jobs_from_html alone -------------------- *)
\* posting entries that lack one of the looked-up parts
NoTitle(i) == [Card(i) EXCEPT !.title = NoElem]
EmptyTitle(i) == [Card(i) EXCEPT !.title = Elem("")]
NoDatetime(i) == [Card(i) EXCEPT !.time.has_datetime = FALSE, !.time.datetime = None]
NoHref(i) == [Card(i) EXCEPT !.link.has_href = FALSE, !.link.href = None]
Bare(i) ==
  [Card(i) EXCEPT !.location = NoElem,
                  !.time = [present |-> FALSE, text |-> None,
                            has_datetime |-> FALSE, datetime |-> None],
                  !.link = [present |-> FALSE, has_href |-> FALSE, href |-> None],
                  !.logo = [present |-> FALSE, delayed |-> None, src |-> None]]

\* the list items a parsed page is made of
Fragments ==
  {Card(1), Card(2), NoCompany(3), NoTitle(4), EmptyTitle(5), NoDatetime(6), Bare(7),
   NoHref(8)}

ParseInit ==
  /\ args \in {CallArgs(r, 0, 0) : r \in RawFilters}
  /\ self = __init__(args)
  /\ source \in {<<items>> : items \in UNION {[1..n -> Fragments] : n \in 0..MaxItems}}
  /\ pc = "PARSING"
  /\ results = << >>
  /\ start_offset = 0
  /\ consecutive_errors = 0
  /\ url = << >>
  /\ outcome = "none"
  /\ slept = NoSleep
  /\ requests = 0
  /\ failures = 0
  /\ streak = 0
  /\ sleeps = 0
  /\ batches = 0
  /\ exit = "none"
  /\ jobs = << >>
  /\ job_index = 0
  /\ fetched = << >>

\* jobs = self._parse_jobs_from_html(html)
ParseHtml ==
  /\ pc = "PARSING"
  /\ results' = _parse_jobs_from_html(Body(source[1]))
  /\ pc' = "PARSED"
  /\ UNCHANGED <<args, self, source, start_offset, consecutive_errors, url, outcome,
                 slept, requests, failures, streak, sleeps, batches, exit,
                 jobs, job_index, fetched>>

ParseNext == ParseHtml

SpecParse == ParseInit /\ [][ParseNext]_vars

\* what the parser returns for one list item parsed on its own
Alone(li) == _parse_jobs_from_html(Body(<<li>>))

\* the results of the items parsed one by one, put together in markup order
RECURSIVE EachAlone(_)
EachAlone(items) ==
  IF items = << >> THEN << >> ELSE Alone(Head(items)) \o EachAlone(Tail(items))

\* C14: the parser treats every list item on its own: its result is the
\* results of the single items in markup order, an item without title
\* element or without company element contributes nothing, a well-formed item
\* contributes its record whatever its neighbours are, and a well-formed item
\* followed by one without company gives exactly one record.
C14_FragmentsIndependent ==
  pc = "PARSED" =>
    LET items == source[1]
    IN  /\ results = EachAlone(items)
        /\ \A i \in 1..Len(items) :
             (~items[i].title.present \/ ~items[i].company.present)
               => Alone(items[i]) = << >>
        /\ \A i \in 1..Len(items) :
             items[i] \in {Card(1), Card(2)} =>
               /\ Len(Alone(items[i])) = 1
               /\ Alone(items[i])[1].jobUrl = items[i].link.href
        /\ items = <<Card(1), NoCompany(3)>> =>
             (Len(results) = 1 /\ results[1].jobUrl = Url(1))

\* a page with an item without company between two well-formed ones
C14_Witness ==
  /\ pc = "PARSED"
  /\ source[1] = <<Card(1), NoCompany(3), Card(2)>>
  /\ Len(results) = 2
  /\ results[2].jobUrl = Url(2)

\* C15: the counter holds the number of failures in a row: a successful
\* fetch after which the loop goes on sets it to 0, the loop stops for the
\* failure budget exactly when three attempts in a row have failed, and the
\* total number of failures of a call does not matter.
C15_ConsecutiveOnly ==
  /\ [](pc # "STOPPED" => consecutive_errors = streak)
  /\ [][(NonEmptyFetch /\ pc' # "STOPPED") => consecutive_errors' = 0]_vars
  /\ [](exit = "errors" <=> streak = 3)
  /\ [](streak <= 3)

\* a call that met six failures, never three in a row, and ended at the
\* empty page
C15_Witness ==
  /\ pc = "STOPPED"
  /\ exit = "empty"
  /\ failures = 6
  /\ Len(results) = 50

\* C16: the counter stays between 0 and 3, the loop is stopped whenever it is
\* 3, and from then on there is no request and no sleep.
C16_CounterBounded ==
  /\ [](consecutive_errors \in 0..3)
  /\ [](consecutive_errors = 3 => (pc = "STOPPED" /\ exit = "errors"))
  /\ [][consecutive_errors = 3 =>
          (requests' = requests /\ sleeps' = sleeps /\ slept' = slept)]_vars
  /\ [][consecutive_errors # 3]_vars

\* the counter reached 3 at the second batch
C16_Witness ==
  /\ consecutive_errors = 3
  /\ pc = "STOPPED"
  /\ start_offset = 25
  /\ requests >= 4

\* C17: requests and sleeps alternate: one sleep between two consecutive
\* requests and none after the last one; the sleep after a successful request
\* lasts 2 plus a fraction below 1, whatever failures came before, and the
\* sleep after a failed request is the backoff.
C17_OneSleepBetweenRequests ==
  /\ [](pc = "FETCHING" => sleeps = requests)
  /\ [](pc \in {"PAUSING", "RETRYING", "STOPPED"} => sleeps = requests - 1)
  /\ [][sleeps' # sleeps =>
          /\ sleeps' = sleeps + 1
          /\ requests' = requests
          /\ outcome = "ok" =>
               (slept'.kind = "politeness" /\ slept'.secs = 2 /\ slept'.frac \in 0..999)
          /\ outcome # "ok" =>
               (slept'.kind = "backoff" /\ slept'.secs = 2 ^ streak /\ slept'.frac = 0)]_vars
  /\ [][requests' # requests =>
          (requests' = requests + 1 /\ sleeps' = sleeps /\ slept' = slept)]_vars

\* a pause after a success that followed two backoffs
C17_Witness ==
  /\ pc = "FETCHING"
  /\ requests = 3
  /\ sleeps = 3
  /\ failures = 2
  /\ slept = [kind |-> "politeness", secs |-> 2, frac |-> 999]

\* C18: with a nonzero limit every request is made with fewer than limit
\* jobs accumulated; once the list holds limit jobs the loop is stopped and
\* takes no further step.
C18_NoRequestAtLimit ==
  /\ [][requests' # requests => (self.limit = 0 \/ Len(results) < self.limit)]_vars
  /\ []((self.limit > 0 /\ Len(results) >= self.limit) =>
          (pc = "STOPPED" /\ exit = "limit"))
  /\ [][exit # "limit"]_vars

\* the limit met exactly by the end of the second batch
C18_Witness ==
  /\ pc = "STOPPED"
  /\ exit = "limit"
  /\ self.limit = 26
  /\ Len(results) = 26
  /\ requests >= 3

\* C19: a 200 answer with an empty body counts as a failure: the counter
\* goes up, the offset stays and the loop backs off and asks again (or stops
\* at the third failure); a 200 answer whose body yields no job ends the
\* loop without touching the counter and without a sleep.
C19_EmptyBodyVersusNoJobs ==
  /\ [][(requests' # requests /\ outcome' = "empty_body") =>
          /\ consecutive_errors' = consecutive_errors + 1
          /\ start_offset' = start_offset
          /\ results' = results
          /\ pc' = (IF consecutive_errors + 1 >= 3 THEN "STOPPED" ELSE "RETRYING")]_vars
  /\ [][pc = "RETRYING" =>
          (pc' = "FETCHING" /\ slept'.kind = "backoff" /\ start_offset' = start_offset)]_vars
  /\ [][EmptyFetch =>
          /\ pc' = "STOPPED"
          /\ exit' = "empty"
          /\ consecutive_errors' = consecutive_errors
          /\ failures' = failures
          /\ sleeps' = sleeps]_vars

\* an empty body as the second failure at the second batch, backed off
C19_Witness ==
  /\ outcome = "empty_body"
  /\ pc = "FETCHING"
  /\ streak = 2
  /\ slept.secs = 4
  /\ results # << >>

\* the value of the start parameter of the URL u
StartParam(u) == u[Len(u)][2][1]

\* C20: every request asks for start = 25 * page + 25 * k, k being the
\* number of fetches that yielded a job so far; the first one asks for
\* 25 * page.
C20_StartParameter ==
  /\ [][requests' # requests =>
          /\ url'[Len(url')][1] = "start"
          /\ StartParam(url') = ToString((25 * self.page) + (25 * batches))]_vars
  /\ [](requests = 1 => StartParam(url) = ToString(25 * self.page))
  /\ [](requests >= 1 =>
          \E k \in 0..requests : StartParam(url) = ToString(25 * (self.page + k)))

\* the second offset asked for by a call that starts at page 1, after a
\* failure at the first one
C20_Witness ==
  /\ self.page = 1
  /\ batches = 1
  /\ requests >= 3
  /\ StartParam(url) = "50"

\* the batches the server holds for the offsets 0, 25, ..., offset - 25 of
\* the scraper f, put together in that order
RECURSIVE Extracted(_, _, _)
Extracted(src, f, offset) ==
  IF offset <= 0 THEN << >>
  ELSE Extracted(src, f, offset - 25)
         \o _parse_jobs_from_html(PageAt(src, StartOf(f, offset - 25)))

\* C21: while the loop runs, and when it ends at an empty batch or at the
\* third failure, the list is the batches of the offsets 0 .. start_offset-25
\* in order; when the limit ends it, the list is the first limit jobs of
\* that concatenation extended by the batch of the current offset; every
\* offset below the current one was answered by exactly one fetch that
\* yielded jobs, whatever failures and retries came in between.
C21_ConcatenationOfBatches ==
  /\ (pc \in {"FETCHING", "RETRYING", "PAUSING"} \/ exit \in {"empty", "errors"})
       => /\ results = Extracted(source, self, start_offset)
          /\ start_offset = 25 * batches
  /\ exit = "limit"
       => /\ results = SubSeq(Extracted(source, self, start_offset + 25), 1, self.limit)
          /\ start_offset = 25 * (batches - 1)
          /\ Len(Extracted(source, self, start_offset)) < self.limit
  /\ (self.limit > 0 /\ exit # "limit")
       => Len(results) < self.limit

\* the limit cut the second batch, each batch taken after two failures
C21_Witness ==
  /\ pc = "STOPPED"
  /\ exit = "limit"
  /\ self.limit = 27
  /\ batches = 2
  /\ failures = 4
  /\ Len(results) = 27
  /\ results[27].jobUrl = Url(27)

(* ------------------------- one list item alone ------------------------ *)
\* what li.find can return for each looked-up part of a list item: no
\* element, an element without text or attribute, a complete element
TitleElems == {NoElem, Elem(""), Elem("Engineer")}
CompanyElems == {NoElem, Elem(""), Elem("Acme")}
LocationElems == {NoElem, Elem("Remote")}
TimeElems ==
  { [present |-> FALSE, text |-> None, has_datetime |-> FALSE, datetime |-> None],
    [present |-> TRUE, text |-> "1 week ago", has_datetime |-> FALSE, datetime |-> None],
    [present |-> TRUE, text |-> "1 week ago", has_datetime |-> TRUE, datetime |-> "2024-01-01"] }
SalaryElems == {NoElem, Elem(""), Elem("$100k")}
LinkElems ==
  { [present |-> FALSE, has_href |-> FALSE, href |-> None],
    [present |-> TRUE, has_href |-> FALSE, href |-> None],
    [present |-> TRUE, has_href |-> TRUE, href |-> Url(1)] }
LogoElems ==
  { [present |-> FALSE, delayed |-> None, src |-> None],
    [present |-> TRUE, delayed |-> None, src |-> None],
    [present |-> TRUE, delayed |-> None, src |-> "logo.png"],
    [present |-> TRUE, delayed |-> "lazy.png", src |-> "logo.png"] }

\* every list item made of these parts
AllFragments ==
  [title : TitleElems, company : CompanyElems, location : LocationElems,
   time : TimeElems, salary : SalaryElems, link : LinkElems, logo : LogoElems]

\* a page that holds one list item
FragmentInit ==
  /\ args \in {CallArgs(r, 0, 0) : r \in RawFilters}
  /\ self = __init__(args)
  /\ source \in {<< <<li>> >> : li \in AllFragments}
  /\ pc = "PARSING"
  /\ results = << >>
  /\ start_offset = 0
  /\ consecutive_errors = 0
  /\ url = << >>
  /\ outcome = "none"
  /\ slept = NoSleep
  /\ requests = 0
  /\ failures = 0
  /\ streak = 0
  /\ sleeps = 0
  /\ batches = 0
  /\ exit = "none"
  /\ jobs = << >>
  /\ job_index = 0
  /\ fetched = << >>

SpecFragment == FragmentInit /\ [][ParseNext]_vars

\* the list item of the parsed page
TheItem == source[1][1]

\* title and company elements exist and carry text
HasTitleAndCompany(li) ==
  /\ li.title.present /\ li.title.text # ""
  /\ li.company.present /\ li.company.text # ""

\* the time element exists without datetime attribute, or the anchor exists
\* without href attribute
LacksAttribute(li) ==
  \/ li.time.present /\ ~li.time.has_datetime
  \/ li.link.present /\ ~li.link.has_href

\* in the record rec of the list item li every absent part holds its default
DefaultsHold(li, rec) ==
  /\ rec.position = li.title.text
  /\ rec.company = li.company.text
  /\ ~li.location.present => rec.location = ""
  /\ ~li.time.present => (rec.date = "" /\ rec.agoTime = "")
  /\ (~li.salary.present \/ li.salary.text = "") => rec.salary = "Not specified"
  /\ ~li.link.present => rec.jobUrl = ""
  /\ (~li.logo.present \/ (li.logo.delayed = None /\ li.logo.src = None))
       => rec.companyLogo = ""
  /\ li.location.present => rec.location = li.location.text
  /\ li.time.present => (rec.date = li.time.datetime /\ rec.agoTime = li.time.text)
  /\ (li.salary.present /\ li.salary.text # "") => rec.salary = li.salary.text
  /\ li.link.present => rec.jobUrl = li.link.href

\* C22 as stated: a list item yields a record iff its title and its company
\* carry text, and in the record every absent part holds its default.
C22_Original ==
  pc = "PARSED" =>
    /\ Len(results) = 1 <=> HasTitleAndCompany(TheItem)
    /\ Len(results) = 1 => DefaultsHold(TheItem, results[1])

\* C22 as amended: a list item yields a record iff its title and its company
\* carry text and neither its time element lacks the datetime attribute nor
\* its anchor the href attribute; the absence of the location, time, salary,
\* anchor or logo element does not matter, and in the record every absent
\* part holds its default ("" and, for the salary, "Not specified").
C22_EmittedIffTitleAndCompany ==
  pc = "PARSED" =>
    /\ Len(results) <= 1
    /\ Len(results) = 1 <=> (HasTitleAndCompany(TheItem) /\ ~LacksAttribute(TheItem))
    /\ Len(results) = 1 => DefaultsHold(TheItem, results[1])

\* a record made of title and company only
C22_Witness ==
  /\ pc = "PARSED"
  /\ ~TheItem.location.present
  /\ ~TheItem.time.present
  /\ ~TheItem.salary.present
  /\ ~TheItem.link.present
  /\ ~TheItem.logo.present
  /\ results =
       << [position |-> "Engineer", company |-> "Acme", location |-> "", date |-> "",
           agoTime |-> "", salary |-> "Not specified", jobUrl |-> "",
           companyLogo |-> ""] >>

\* the list item carries title and company and every subscripted attribute
Returned(li) == HasTitleAndCompany(li) /\ ~LacksAttribute(li)

\* the link target of a list item as a record holds it
UrlOfItem(li) == IF li.link.present /\ li.link.has_href THEN li.link.href ELSE ""

\* C23: a list item whose time element has no datetime attribute, or whose
\* anchor has no href attribute, yields no record although it carries title
\* and company: no record holds "" as the date of a time element; the
\* records returned are those of the other items that carry title and
\* company, in markup order, each with the link of its own anchor.
C23_MalformedSkipped ==
  pc = "PARSED" =>
    LET items == source[1]
        kept  == SelectSeq(items, Returned)
    IN  /\ Len(results) = Len(kept)
        /\ \A k \in 1..Len(results) :
             /\ results[k].jobUrl = UrlOfItem(kept[k])
             /\ results[k].agoTime # "" => results[k].date # ""
        /\ \A i \in 1..Len(items) :
             (HasTitleAndCompany(items[i]) /\ LacksAttribute(items[i]))
               => Alone(items[i]) = << >>

\* a well-formed item between one without datetime and one without href
C23_Witness ==
  /\ pc = "PARSED"
  /\ source[1] = <<NoDatetime(6), Card(1), NoHref(8)>>
  /\ Len(results) = 1
  /\ results[1].jobUrl = Url(1)

\* C24: the list search_jobs returns is empty both when the first request
\* is answered with a page that yields no job and when every request fails
\* until the third failure ends the loop; at the first request of a call
\* whose source holds no job for it both runs are possible, so the empty
\* list does not tell which of the two happened.
C24_EmptyResultAmbiguous ==
  /\ (pc = "STOPPED" /\ exit = "empty" /\ requests = 1)
       => (results = << >> /\ outcome = "ok" /\ failures = 0)
  /\ (pc = "STOPPED" /\ exit = "errors" /\ batches = 0)
       => (results = << >> /\ outcome # "ok" /\ failures = requests /\ requests = 3)
  /\ (requests = 0 /\ CurrentBatch = << >>)
       => (ENABLED FetchEmpty /\ ENABLED FetchFailed)
  /\ (pc = "STOPPED" /\ results = << >>) => exit \in {"empty", "errors"}

\* every request of a call failed although the source held no job for it
C24_Witness ==
  /\ pc = "STOPPED"
  /\ exit = "errors"
  /\ requests = 3
  /\ failures = 3
  /\ results = << >>
  /\ CurrentBatch = << >>

\* the spellings of one chunk of text that differ in letter case only
Spellings(c) ==
  CASE c \in {"past week", "Past Week", "PAST WEEK"} -> {"past week", "Past Week", "PAST WEEK"}
    [] c \in {"24hr", "24HR"} -> {"24hr", "24HR"}
    [] c \in {"contract", "Contract", "CONTRACT"} -> {"contract", "Contract", "CONTRACT"}
    [] c \in {"full time", "Full Time"} -> {"full time", "Full Time"}
    [] c \in {"remote", "Remote", "REMOTE"} -> {"remote", "Remote", "REMOTE"}
    [] c \in {"on-site", "On-Site"} -> {"on-site", "On-Site"}
    [] c \in {"senior", "Senior", "SENIOR"} -> {"senior", "Senior", "SENIOR"}
    [] c \in {"guru", "Guru"} -> {"guru", "Guru"}
    [] c \in {"recent", "Recent", "RECENT"} -> {"recent", "Recent", "RECENT"}
    [] c \in {"relevant", "Relevant"} -> {"relevant", "Relevant"}
    [] c \in {"oldest", "Oldest"} -> {"oldest", "Oldest"}
    [] OTHER -> {c}

\* the texts that differ from s in letter case only
RECURSIVE Recase(_)
Recase(s) ==
  IF s = << >> THEN {<< >>}
  ELSE {<<c>> \o t : c \in Spellings(Head(s)), t \in Recase(Tail(s))}

\* runs of whitespace put around a text
Paddings == {<< >>, <<"\t", " ">>}

\* the text s with whitespace put around it
Padded(s) == {(pre \o s) \o post : pre \in Paddings, post \in Paddings}

\* the texts that differ from s in surrounding whitespace only: s with
\* whitespace added, and the parts of s that s is a padding of
Resurrounded(s) ==
  Padded(s)
    \cup UNION {{SubSeq(s, i, j) : j \in {n \in (i - 1)..Len(s) :
                                          \A k \in 1..Len(s) :
                                            (k < i \/ k > n) => s[k] \in {" ", "\t"}}} :
                 i \in 1..(Len(s) + 1)}

\* the texts that differ from s in letter case and surrounding whitespace
Respelled(s) == UNION {Recase(t) : t \in Resurrounded(s)}

\* C25: the URL built for a call equals the URL built for the call with the
\* date, job type, remote, experience or sort argument written in another
\* letter case or with other surrounding whitespace, and the URL built for
\* the call with the keyword, location or salary argument written with other
\* surrounding whitespace; keyword and location are stored without
\* surrounding whitespace.
C25_CaseAndWhitespaceInsensitive ==
  pc = "BUILT" =>
    /\ \A d \in {"date_posted", "job_type", "remote", "experience", "sort_by"} :
         \A v \in Respelled(args[d]) :
           _build_search_url(__init__([args EXCEPT ![d] = v]), start_offset) = url
    /\ \A d \in {"keyword", "location", "salary"} :
         \A v \in Resurrounded(args[d]) :
           _build_search_url(__init__([args EXCEPT ![d] = v]), start_offset) = url
    /\ \A d \in {"keyword", "location"} :
         self[d] # << >> =>
           (Head(self[d]) \notin {" ", "\t"} /\ self[d][Len(self[d])] \notin {" ", "\t"})

\* recognised values given in upper case and with whitespace around them
C25_Witness ==
  /\ pc = "BUILT"
  /\ args.date_posted = <<" ", "Past Week", " ">>
  /\ args.experience = <<"SENIOR">>
  /\ args.remote = <<"on-site", "\t">>
  /\ args.salary = <<"100000", " ">>
  /\ args.keyword = <<" ", "q", " ", "a", " ">>
  /\ HasParam(url, "f_TPR")
  /\ HasParam(url, "f_E")
  /\ HasParam(url, "f_WT")
  /\ HasParam(url, "f_SB2")
  /\ url[1] = <<"keywords", <<"q", "+", "a">> >>

(* --------------------------- perform_search --------------------------- *)
\* (job_search_core.py, with fetch_full_job_description of job_analysis.py)
\* the text c written n times
RECURSIVE Repeat(_, _)
Repeat(c, n) ==
  IF n = 0 THEN ""
  ELSE IF n % 2 = 0 THEN LET half == Repeat(c, n \div 2) IN half \o half
  ELSE c \o Repeat(c, n - 1)

\* number of characters of the description the preview shows
PreviewLength == 200

\* the div.show-more-less-html__markup of a detail page: absent, or present
\* with the text get_text(separator="\n") returns for it
NoSection == [present |-> FALSE, text |-> << >>]
Section(text) == [present |-> TRUE, text |-> text]

\* the detail pages the server answers with: no description block, a blank
\* one, a short one, one of exactly 200 characters and a longer one
DetailPages ==
  { NoSection,
    Section(<<" ", "\t">>),
    Section(<<" ", "We sponsor visas.", "\t">>),
    Section(<<Repeat("a", PreviewLength)>>),
    Section(<<" ", Repeat("a", PreviewLength) \o "bc">>) }

\* what requests.get can produce for a detail URL: a raised connection
\* error, an error status, or 200 with a detail page
DetailResponses ==
     { [raised |-> TRUE, status_code |-> 0, section |-> NoSection],
       [raised |-> FALSE, status_code |-> 404, section |-> NoSection] }
  \cup { [raised |-> FALSE, status_code |-> 200, section |-> p] : p \in DetailPages }

\* response.raise_for_status() raises
raise_for_status(resp) == resp.status_code >= 400 /\ resp.status_code < 600

\* the value fetch_full_job_description returns when requests.get answers
\* with resp.  The detail URL is made of the last part of job_url; the
\* answer does not depend on how, so the URL is not part of the model.
fetch_full_job_description(resp) ==
  IF resp.raised \/ raise_for_status(resp) THEN None
  ELSE IF resp.section.present THEN Join(strip(resp.section.text)) ELSE None

\* time.sleep(random.uniform(3, 5)) in the finally block
DetailSleeps ==
  { [kind |-> "detail", secs |-> 3, frac |-> 0],
    [kind |-> "detail", secs |-> 4, frac |-> 999] }

\* job.get("full_description", "")
FullDescriptionOf(job) ==
  IF "full_description" \in DOMAIN job THEN job["full_description"] ELSE ""

\* full_desc[:200]
Slice(text, n) == IF Len(text) <= n THEN text ELSE SubSeq(text, 1, n)

\* the preview made of the whole description
description_preview_uncut(full_desc) ==
  IF full_desc # "" THEN full_desc \o "..." ELSE "No preview available."

\* lines 63-66
description_preview(full_desc) ==
  IF full_desc # "" THEN Slice(full_desc, PreviewLength) \o "..."
  ELSE "No preview available."

\* the job dict after lines 60-66
WithDescription(job, full_desc) ==
  [k \in DOMAIN job \cup {"full_description", "description_preview"} |->
     CASE k = "full_description" -> Or(full_desc, "Full description not available.")
       [] k = "description_preview" -> description_preview(full_desc)
       [] OTHER -> job[k]]

\* the pages of the modelled searches: nothing, one batch of three list
\* items of which one lacks its company, and two batches of which the first
\* holds a job without anchor
SearchSources ==
  { << >>,
    << <<Card(1), NoCompany(2), Card(3)>> >>,
    << <<Card(1), Bare(2)>>, <<Card(26)>> >> }

\* the limits of the modelled searches
SearchLimits == {0, 2}

\* scraper = LinkedInJobScraper(...), at the first iteration of search_jobs
SearchInit ==
  /\ args \in {CallArgs(r, 0, l) : r \in RawFilters, l \in SearchLimits}
  /\ self = __init__(args)
  /\ source \in SearchSources
  /\ LoopStart

\* jobs = list(scraper.search_jobs())
ListJobs ==
  /\ pc = "STOPPED"
  /\ jobs' = results
  /\ job_index' = 1
  /\ pc' = "ENRICHING"
  /\ UNCHANGED <<args, self, source, results, start_offset, consecutive_errors, url,
                 outcome, slept, requests, failures, streak, sleeps, batches, exit,
                 fetched>>

\* one iteration of "for job in jobs"
Describe ==
  /\ pc = "ENRICHING"
  /\ job_index <= Len(jobs)
  /\ LET job == jobs[job_index]
     IN  IF FullDescriptionOf(job) # ""
           THEN /\ jobs' = [jobs EXCEPT ![job_index] =
                              WithDescription(job, FullDescriptionOf(job))]
                /\ UNCHANGED <<fetched, slept, sleeps>>
           ELSE \E resp \in DetailResponses :
                  /\ jobs' = [jobs EXCEPT ![job_index] =
                                WithDescription(job, Or(fetch_full_job_description(resp), ""))]
                  /\ fetched' = Append(fetched, fetch_full_job_description(resp))
                  /\ slept' \in DetailSleeps
                  /\ sleeps' = sleeps + 1
  /\ job_index' = job_index + 1
  /\ UNCHANGED <<args, self, source, pc, results, start_offset, consecutive_errors, url,
                 outcome, requests, failures, streak, batches, exit>>

\* return jobs
ReturnJobs ==
  /\ pc = "ENRICHING"
  /\ job_index > Len(jobs)
  /\ pc' = "RETURNED"
  /\ UNCHANGED <<args, self, source, results, start_offset, consecutive_errors, url,
                 outcome, slept, requests, failures, streak, sleeps, batches, exit,
                 jobs, job_index, fetched>>

SearchNext ==
  \/ FetchFailed
  \/ FetchEmpty
  \/ FetchLimit
  \/ FetchMore
  \/ PolitenessSleep
  \/ BackoffSleep
  \/ ListJobs
  \/ Describe
  \/ ReturnJobs

SpecSearch == SearchInit /\ [][SearchNext]_vars

\* the fields of a job dict that search_jobs filled
ScrapedFields ==
  {"position", "company", "location", "date", "agoTime", "salary", "jobUrl", "companyLogo"}

====
